---- MODULE Spec2Model ----
(***************************************************************************)
(* Model of .app_src/00_AliveBehavior/gpio_behavior.c: main() opens a GPIO *)
(* chip, takes two line handles, requests one as input and one as output   *)
(* (initial value 0) and then copies the input level to the output every   *)
(* 10 ms, forever.                                                         *)
(*                                                                         *)
(* The program is a sequence of calls into libgpiod.  Every call is one    *)
(* action; its result is drawn from the outcomes the library documents     *)
(* (a handle or NULL, 0 or -1, a level or -1).  Only the result of         *)
(* gpiod_chip_open is tested by the program; all other results are         *)
(* dropped, so a NULL line handle is passed on to the next library call.   *)
(* Using a NULL handle is undefined: the call either kills the process     *)
(* (SIGSEGV) or returns an error, and the model takes both.                *)
(***************************************************************************)
EXTENDS Integers, Sequences, FiniteSets

\* #define INPUT_LINE 10, #define OUTPUT_LINE 24
INPUT_LINE == 10
OUTPUT_LINE == 24
\* usleep(10000)
SLEEP_US == 10000

\* Number of library calls the call log records; later calls still happen
\* but are no longer recorded.
MaxOps == 12

Offsets == {INPUT_LINE, OUTPUT_LINE}
Levels == {0, 1}

\* A pointer is NULL or refers to one object: <<>> or <<x>>.
NULL == <<>>
Ref(x) == <<x>>
\* An int that has not been assigned yet is <<>>, otherwise <<v>>.
NoInt == <<>>
Int1(v) == <<v>>

VARIABLES
    pc,          \* position of main()
    chip,        \* struct gpiod_chip *chip
    in_line,     \* struct gpiod_line *in_line
    out_line,    \* struct gpiod_line *out_line
    val,         \* int val (loop local)
    set_ret,     \* result of the last gpiod_line_set_value (dropped by main)
    held,        \* the provider's state: how this process holds each line
    level,       \* the logic level of each line
    exit_status, \* the value main() returned, if it returned
    err_out,     \* whether perror() wrote to stderr
    closed,      \* whether gpiod_chip_close was called
    ops          \* log of the library calls issued, in order

vars == <<pc, chip, in_line, out_line, val, set_ret, held, level,
          exit_status, err_out, closed, ops>>

StartupPcs == {"open", "check", "get_in", "get_out", "req_in", "req_out"}
LoopPcs == {"read", "write", "sleep"}
Pcs == StartupPcs \cup LoopPcs \cup {"exited", "crashed"}

\* The log stops recording when it is full.  An entry is <<call, v>>: v is
\* the offset for get_line, the initial value for request_output, the
\* returned value for get_value, the value passed for set_value, the
\* duration for usleep, and 0 otherwise.
Logged(op, v) == IF Len(ops) < MaxOps THEN Append(ops, <<op, v>>) ELSE ops

\* A process that dies holds no line any more.
Released == [o \in Offsets |-> "free"]

\* What the line provider does with the int passed to set_value: any
\* non-zero value drives the line high.
Norm(v) == IF v = 0 THEN 0 ELSE 1

Init ==
    /\ pc = "open"
    /\ chip = NULL
    /\ in_line = NULL
    /\ out_line = NULL
    /\ val = NoInt
    /\ set_ret = NoInt
    /\ held = Released
    /\ level \in [Offsets -> Levels]
    /\ exit_status = NoInt
    /\ err_out = FALSE
    /\ closed = FALSE
    /\ ops = <<>>

\* chip = gpiod_chip_open(GPIO_CHIP);
OpenChip ==
    /\ pc = "open"
    /\ \E r \in {NULL, Ref("gpiochip0")} : chip' = r
    /\ pc' = "check"
    /\ ops' = Logged("chip_open", 0)
    /\ UNCHANGED <<in_line, out_line, val, set_ret, held, level,
                   exit_status, err_out, closed>>

\* Mutant of CheckChip: the error is reported but the return is missing.
CheckChip_NoReturn ==
    /\ pc = "check"
    /\ err_out' = (chip = NULL)
    /\ pc' = "get_in"
    /\ UNCHANGED <<chip, in_line, out_line, val, set_ret, held, level,
                   exit_status, closed, ops>>

\* if (!chip) { perror("Open chip failed"); return 1; }
CheckChip ==
    /\ pc = "check"
    /\ IF chip = NULL
         THEN /\ err_out' = TRUE
              /\ exit_status' = Int1(1)
              /\ pc' = "exited"
         ELSE /\ pc' = "get_in"
              /\ UNCHANGED <<err_out, exit_status>>
    /\ UNCHANGED <<chip, in_line, out_line, val, set_ret, held, level,
                   closed, ops>>

\* gpiod_chip_get_line(chip, offset): a handle for the offset, or NULL.
\* NULL as the chip is undefined: SIGSEGV or NULL.
GetLineResults(c, offset) ==
    IF c = NULL THEN {"segv", "null"} ELSE {"line", "null"}

\* in_line = gpiod_chip_get_line(chip, INPUT_LINE);
GetInLine ==
    /\ pc = "get_in"
    /\ \E r \in GetLineResults(chip, INPUT_LINE) :
         /\ pc' = IF r = "segv" THEN "crashed" ELSE "get_out"
         /\ in_line' = IF r = "line" THEN Ref(INPUT_LINE) ELSE NULL
    /\ ops' = Logged("get_line", INPUT_LINE)
    /\ UNCHANGED <<chip, out_line, val, set_ret, held, level,
                   exit_status, err_out, closed>>

\* out_line = gpiod_chip_get_line(chip, OUTPUT_LINE);
GetOutLine ==
    /\ pc = "get_out"
    /\ \E r \in GetLineResults(chip, OUTPUT_LINE) :
         /\ pc' = IF r = "segv" THEN "crashed" ELSE "req_in"
         /\ out_line' = IF r = "line" THEN Ref(OUTPUT_LINE) ELSE NULL
    /\ ops' = Logged("get_line", OUTPUT_LINE)
    /\ UNCHANGED <<chip, in_line, val, set_ret, held, level,
                   exit_status, err_out, closed>>

\* Outcomes of a request on a line handle: NULL is undefined (SIGSEGV or an
\* error return); a request on a valid handle succeeds or fails.
RequestResults(line) ==
    IF line = NULL THEN {"segv", "fail"} ELSE {"ok", "fail"}

\* Mutant of RequestInput: the result is checked and a failure is fatal.
RequestInput_Checked ==
    /\ pc = "req_in"
    /\ \E r \in RequestResults(in_line) :
         /\ pc' = IF r = "segv" THEN "crashed"
                  ELSE IF r = "fail" THEN "exited" ELSE "req_out"
         /\ exit_status' = IF r = "fail" THEN Int1(1) ELSE exit_status
         /\ held' = IF r = "ok"
                      THEN [held EXCEPT ![in_line[1]] = "input"]
                      ELSE IF r = "segv" THEN Released ELSE held
    /\ ops' = Logged("request_input", 0)
    /\ UNCHANGED <<chip, in_line, out_line, val, set_ret, level,
                   err_out, closed>>

\* gpiod_line_request_input(in_line, "gpio_in");
RequestInput ==
    /\ pc = "req_in"
    /\ \E r \in RequestResults(in_line) :
         /\ pc' = IF r = "segv" THEN "crashed" ELSE "req_out"
         /\ held' = IF r = "ok"
                      THEN [held EXCEPT ![in_line[1]] = "input"]
                      ELSE IF r = "segv" THEN Released ELSE held
    /\ ops' = Logged("request_input", 0)
    /\ UNCHANGED <<chip, in_line, out_line, val, set_ret, level,
                   exit_status, err_out, closed>>

\* Mutant of RequestOutput: the output line is requested as an input too.
RequestOutput_AsInput ==
    /\ pc = "req_out"
    /\ \E r \in RequestResults(out_line) :
         /\ pc' = IF r = "segv" THEN "crashed" ELSE "read"
         /\ held' = IF r = "ok"
                      THEN [held EXCEPT ![out_line[1]] = "input"]
                      ELSE IF r = "segv" THEN Released ELSE held
    /\ ops' = Logged("request_input", 0)
    /\ UNCHANGED <<chip, in_line, out_line, val, set_ret, level,
                   exit_status, err_out, closed>>

\* Mutant of RequestOutput: the line is requested with initial value 1.
RequestOutput_InitialHigh ==
    /\ pc = "req_out"
    /\ \E r \in RequestResults(out_line) :
         /\ pc' = IF r = "segv" THEN "crashed" ELSE "read"
         /\ held' = IF r = "ok"
                      THEN [held EXCEPT ![out_line[1]] = "output"]
                      ELSE IF r = "segv" THEN Released ELSE held
         /\ level' = IF r = "ok"
                       THEN [level EXCEPT ![out_line[1]] = 1]
                       ELSE level
    /\ ops' = Logged("request_output", 1)
    /\ UNCHANGED <<chip, in_line, out_line, val, set_ret,
                   exit_status, err_out, closed>>

\* gpiod_line_request_output(out_line, "gpio_out", 0);
RequestOutput ==
    /\ pc = "req_out"
    /\ \E r \in RequestResults(out_line) :
         /\ pc' = IF r = "segv" THEN "crashed" ELSE "read"
         /\ held' = IF r = "ok"
                      THEN [held EXCEPT ![out_line[1]] = "output"]
                      ELSE IF r = "segv" THEN Released ELSE held
         /\ level' = IF r = "ok"
                       THEN [level EXCEPT ![out_line[1]] = 0]
                       ELSE level
    /\ ops' = Logged("request_output", 0)
    /\ UNCHANGED <<chip, in_line, out_line, val, set_ret,
                   exit_status, err_out, closed>>

\* Outcomes of gpiod_line_get_value: the level of a line this process
\* holds, or -1 on error (always -1 on a line that is not held); NULL is
\* undefined (SIGSEGV or an error return).
GetValueResults(line) ==
    IF line = NULL THEN {"segv", "err"}
    ELSE IF held[line[1]] = "free" THEN {"err"}
    ELSE {"level", "err"}

\* int val = gpiod_line_get_value(in_line);
GetValue ==
    /\ pc = "read"
    /\ \E r \in GetValueResults(in_line) :
         /\ pc' = IF r = "segv" THEN "crashed" ELSE "write"
         /\ val' = IF r = "level" THEN Int1(level[in_line[1]])
                   ELSE IF r = "err" THEN Int1(-1)
                   ELSE val
         /\ ops' = Logged("get_value",
                          IF r = "level" THEN level[in_line[1]] ELSE -1)
         /\ held' = IF r = "segv" THEN Released ELSE held
    /\ UNCHANGED <<chip, in_line, out_line, set_ret, level,
                   exit_status, err_out, closed>>

\* Outcomes of gpiod_line_set_value: 0 after driving a line this process
\* holds as output, or -1 on error (always -1 on a line not held as output);
\* NULL is undefined (SIGSEGV or an error return).
SetValueResults(line) ==
    IF line = NULL THEN {"segv", "err"}
    ELSE IF held[line[1]] # "output" THEN {"err"}
    ELSE {"ok", "err"}

\* Mutant of SetValue: the inverted value is written.
SetValue_Inverted ==
    /\ pc = "write"
    /\ \E r \in SetValueResults(out_line) :
         /\ pc' = IF r = "segv" THEN "crashed" ELSE "sleep"
         /\ level' = IF r = "ok"
                       THEN [level EXCEPT ![out_line[1]] = 1 - Norm(val[1])]
                       ELSE level
         /\ set_ret' = IF r = "ok" THEN Int1(0)
                       ELSE IF r = "err" THEN Int1(-1)
                       ELSE set_ret
         /\ held' = IF r = "segv" THEN Released ELSE held
    /\ ops' = Logged("set_value", 1 - Norm(val[1]))
    /\ UNCHANGED <<chip, in_line, out_line, val,
                   exit_status, err_out, closed>>

\* Mutant of SetValue: the write is skipped when the output line already
\* has the value read.
SetValue_OnlyOnChange ==
    /\ pc = "write"
    /\ IF out_line # NULL /\ level[out_line[1]] = val[1]
         THEN /\ pc' = "sleep"
              /\ UNCHANGED <<level, set_ret, held, ops>>
         ELSE /\ \E r \in SetValueResults(out_line) :
                   /\ pc' = IF r = "segv" THEN "crashed" ELSE "sleep"
                   /\ level' = IF r = "ok"
                                 THEN [level EXCEPT ![out_line[1]] = Norm(val[1])]
                                 ELSE level
                   /\ set_ret' = IF r = "ok" THEN Int1(0)
                                 ELSE IF r = "err" THEN Int1(-1)
                                 ELSE set_ret
                   /\ held' = IF r = "segv" THEN Released ELSE held
              /\ ops' = Logged("set_value", val[1])
    /\ UNCHANGED <<chip, in_line, out_line, val,
                   exit_status, err_out, closed>>

\* gpiod_line_set_value(out_line, val);
SetValue ==
    /\ pc = "write"
    /\ \E r \in SetValueResults(out_line) :
         /\ pc' = IF r = "segv" THEN "crashed" ELSE "sleep"
         /\ level' = IF r = "ok"
                       THEN [level EXCEPT ![out_line[1]] = Norm(val[1])]
                       ELSE level
         /\ set_ret' = IF r = "ok" THEN Int1(0)
                       ELSE IF r = "err" THEN Int1(-1)
                       ELSE set_ret
         /\ held' = IF r = "segv" THEN Released ELSE held
    /\ ops' = Logged("set_value", val[1])
    /\ UNCHANGED <<chip, in_line, out_line, val,
                   exit_status, err_out, closed>>

\* usleep(10000); and back to the top of while (1)
Sleep ==
    /\ pc = "sleep"
    /\ pc' = "read"
    /\ ops' = Logged("usleep", SLEEP_US)
    /\ UNCHANGED <<chip, in_line, out_line, val, set_ret, held, level,
                   exit_status, err_out, closed>>

\* The outside world changes the level presented at the input pin.
InputChanges ==
    /\ level' = [level EXCEPT ![INPUT_LINE] = 1 - level[INPUT_LINE]]
    /\ UNCHANGED <<pc, chip, in_line, out_line, val, set_ret, held,
                   exit_status, err_out, closed, ops>>

Next ==
    \/ OpenChip
    \/ CheckChip
    \/ GetInLine
    \/ GetOutLine
    \/ RequestInput
    \/ RequestOutput
    \/ GetValue
    \/ SetValue
    \/ Sleep
    \/ InputChanges

Spec == Init /\ [][Next]_vars

\* The program's own steps; the scheduler runs the process whenever it can
\* take a step.
Step ==
    \/ OpenChip
    \/ CheckChip
    \/ GetInLine
    \/ GetOutLine
    \/ RequestInput
    \/ RequestOutput
    \/ GetValue
    \/ SetValue
    \/ Sleep

LiveSpec == Spec /\ WF_vars(Step)

TypeOK ==
    /\ pc \in Pcs
    /\ chip \in {NULL, Ref("gpiochip0")}
    /\ in_line \in {NULL, Ref(INPUT_LINE)}
    /\ out_line \in {NULL, Ref(OUTPUT_LINE)}
    /\ val \in {NoInt} \cup {Int1(v) : v \in {-1, 0, 1}}
    /\ set_ret \in {NoInt, Int1(0), Int1(-1)}
    /\ held \in [Offsets -> {"free", "input", "output"}]
    /\ level \in [Offsets -> Levels]
    /\ exit_status \in {NoInt, Int1(0), Int1(1)}
    /\ err_out \in BOOLEAN
    /\ closed \in BOOLEAN
    /\ Len(ops) <= MaxOps

(***************************************************************************)
(* The calls main() issues, as the log shows them.                         *)
(***************************************************************************)
StartupCalls ==
    << <<"chip_open", 0>>, <<"get_line", INPUT_LINE>>,
       <<"get_line", OUTPUT_LINE>>, <<"request_input", 0>>,
       <<"request_output", 0>> >>
LoopCalls == <<"get_value", "set_value", "usleep">>
NStartup == Len(StartupCalls)
NLoop == Len(LoopCalls)

\* The call at position i of a run that got that far.
ExpectedCall(i) ==
    IF i <= NStartup THEN StartupCalls[i][1]
    ELSE LoopCalls[((i - NStartup - 1) % NLoop) + 1]

Count(op) == Cardinality({i \in 1..Len(ops) : ops[i][1] = op})

OutHeld == held[OUTPUT_LINE] = "output"
InHeld == held[INPUT_LINE] = "input"
Out == level[OUTPUT_LINE]

\* C1: after each completed loop iteration (read, write, sleep) the output
\* line's value equals the value returned by the most recent read.
C1_MirrorAfterIteration ==
    (pc = "read" /\ val # NoInt) => Out = val[1]

\* C2: if opening the chip fails, the program reports the error and exits
\* with status 1, and no get-line, request, read, write or close operation
\* is ever performed afterwards.
C2_OpenFailureExits ==
    (chip = NULL /\ pc \notin {"open", "check"}) =>
        /\ pc = "exited"
        /\ exit_status = Int1(1)
        /\ err_out
        /\ ops = <<StartupCalls[1]>>
        /\ in_line = NULL /\ out_line = NULL
        /\ held = Released
        /\ val = NoInt /\ set_ret = NoInt
        /\ ~closed

C2_Witness ==
    pc = "exited" /\ chip = NULL /\ exit_status = Int1(1)

\* C3: once the chip open has succeeded the program never terminates on its
\* own: it is still in startup or in the loop, exit status 0 is never
\* returned, the chip is never closed, and the only exit ever taken is exit
\* status 1 on a failed chip open.
C3_NeverTerminates ==
    /\ chip # NULL => pc \in StartupPcs \cup LoopPcs
    /\ exit_status # Int1(0)
    /\ ~closed
    /\ pc \notin StartupPcs \cup LoopPcs =>
           (pc = "exited" /\ exit_status = Int1(1) /\ chip = NULL)

C5_LinesHeld ==
    /\ Cardinality({o \in Offsets : held[o] = "input"}) <= 1
    /\ Cardinality({o \in Offsets : held[o] = "output"}) <= 1
    /\ Count("chip_open") <= 1
    /\ InHeld => in_line = Ref(INPUT_LINE)
    /\ OutHeld => out_line = Ref(OUTPUT_LINE)
    /\ held # Released =>
           /\ chip = Ref("gpiochip0")
           /\ ~closed
           /\ pc \notin {"open", "check", "exited", "crashed"}

C5_Witness ==
    InHeld /\ OutHeld /\ pc \in LoopPcs

C8_IterationShape ==
    /\ \A i \in (NStartup + 1)..Len(ops) :
           /\ ops[i][1] = LoopCalls[((i - NStartup - 1) % NLoop) + 1]
           /\ ops[i][1] = "set_value" =>
                  (ops[i - 1][1] = "get_value" /\ ops[i][2] = ops[i - 1][2])
           /\ ops[i][1] = "usleep" => ops[i][2] = SLEEP_US
    /\ (pc = "read" /\ Len(ops) < MaxOps) =>
           /\ Count("get_value") = Count("usleep")
           /\ Count("set_value") = Count("usleep")
           /\ Len(ops) = NStartup + NLoop * Count("usleep")
    /\ (pc = "write" /\ Len(ops) < MaxOps) =>
           /\ Count("get_value") = Count("set_value") + 1
           /\ ops[Len(ops)] = <<"get_value", val[1]>>
    /\ (pc = "sleep" /\ Len(ops) < MaxOps) =>
           /\ Count("set_value") = Count("usleep") + 1
           /\ ops[Len(ops)] = <<"set_value", val[1]>>

C8_Witness ==
    /\ pc = "read" /\ Len(ops) = NStartup + 2 * NLoop
    /\ InHeld /\ OutHeld
    /\ ops[NStartup + 2] = <<"set_value", 1>>
    /\ ops[NStartup + NLoop + 2] = <<"set_value", 1>>

\* C9: every value the loop reads and passes to the write is 0 or 1,
\* whatever the read returns.
C9_ValIsLevel ==
    val # NoInt => val[1] \in Levels

\* C10: after a successful startup, under weak fairness of the program's
\* steps, if the input holds a value v from some point on, then eventually
\* the output is v and stays v.
C10_EventuallyMirrors ==
    \A v \in Levels :
        <>[](InHeld /\ OutHeld /\ pc \in LoopPcs /\ level[INPUT_LINE] = v)
            => <>[](Out = v)

====
